---- MODULE Spec2Model ----
(***************************************************************************)
(* netscape_cookies: conversion between Cookie records, raw cookie         *)
(* mappings and the Netscape cookie file text.                             *)
(*                                                                         *)
(* A text (Python str) is a sequence of characters, each character a       *)
(* string; <<"a", "\t", "b">> is the Python string "a\tb".  The string     *)
(* methods the source calls (split, strip, startswith, replace, upper,     *)
(* isdigit, int, str, join) are operators over such sequences, computed    *)
(* the way CPython computes them.                                          *)
(***************************************************************************)
EXTENDS Integers, Sequences, FiniteSets, TLC

VARIABLES
    pc,            \* position of the caller: which call runs next
    input_string,  \* argument of parse_from_string
    parsed,        \* outcome of parse_from_string / parse_from_file
    cookies,       \* argument of save_to_file (list of Cookie)
    disk,          \* the cookie file on disk: <<>> when absent, <<text>> otherwise
    returned,      \* value returned by the writer / serializer / driver call
    cookie_data,   \* argument of to_netscape_string; the session's cookie list
    file_path,     \* path argument: <<>> for None, <<text>> for a str
    data,          \* netscape_from_driver's local `data`
    reads          \* the lists driver.get_cookies() has returned, in order

vars == <<pc, input_string, parsed, cookies, disk, returned,
          cookie_data, file_path, data, reads>>

-----------------------------------------------------------------------------
(* Characters and the str methods                                          *)

TAB == "\t"
NL == "\n"
\* U+00B2 SUPERSCRIPT TWO: str.isdigit() is True for it, int() rejects it.
SUPERSCRIPT_TWO == "sup2"

\* The characters str.strip() removes, among those the inputs use.
Whitespace == {" ", "\t", "\n", "\r"}

DecimalDigits == <<"0", "1", "2", "3", "4", "5", "6", "7", "8", "9">>
LowerLetters == <<"a", "b", "c", "d", "e", "f", "g", "h", "i", "j", "k", "l", "m",
                  "n", "o", "p", "q", "r", "s", "t", "u", "v", "w", "x", "y", "z">>
UpperLetters == <<"A", "B", "C", "D", "E", "F", "G", "H", "I", "J", "K", "L", "M",
                  "N", "O", "P", "Q", "R", "S", "T", "U", "V", "W", "X", "Y", "Z">>

IsDecimalChar(c) == \E i \in 1..Len(DecimalDigits) : DecimalDigits[i] = c
DigitValue(c) == (CHOOSE i \in 1..Len(DecimalDigits) : DecimalDigits[i] = c) - 1
\* c.isdigit(): decimal digits and the other characters of digit type.
IsDigitChar(c) == IsDecimalChar(c) \/ c = SUPERSCRIPT_TWO

UpperChar(c) ==
    IF \E i \in 1..Len(LowerLetters) : LowerLetters[i] = c
    THEN UpperLetters[CHOOSE i \in 1..Len(LowerLetters) : LowerLetters[i] = c]
    ELSE c

\* s.upper()
Upper(s) == IF s = <<>> THEN <<>> ELSE [i \in 1..Len(s) |-> UpperChar(s[i])]

\* s.startswith(p)
StartsWith(s, p) == Len(s) >= Len(p) /\ SubSeq(s, 1, Len(p)) = p

RECURSIVE LStrip(_)
LStrip(s) == IF s # <<>> /\ Head(s) \in Whitespace THEN LStrip(Tail(s)) ELSE s

RECURSIVE RStrip(_)
RStrip(s) ==
    IF s # <<>> /\ s[Len(s)] \in Whitespace
    THEN RStrip(SubSeq(s, 1, Len(s) - 1))
    ELSE s

\* s.strip()
Strip(s) == RStrip(LStrip(s))

\* s.split(sep) for a one-character sep: every piece, empty ones included.
RECURSIVE Split(_, _)
Split(s, sep) ==
    IF \A i \in 1..Len(s) : s[i] # sep
    THEN <<s>>
    ELSE LET i == CHOOSE k \in 1..Len(s) :
                      s[k] = sep /\ \A j \in 1..(k - 1) : s[j] # sep
         IN  <<SubSeq(s, 1, i - 1)>> \o Split(SubSeq(s, i + 1, Len(s)), sep)

\* s.replace(old, new): the non-overlapping occurrences, found left to right.
RECURSIVE Replace(_, _, _)
Replace(s, old, new) ==
    IF s = <<>> THEN <<>>
    ELSE IF StartsWith(s, old)
         THEN new \o Replace(SubSeq(s, Len(old) + 1, Len(s)), old, new)
         ELSE <<Head(s)>> \o Replace(Tail(s), old, new)

\* sep.join(parts)
RECURSIVE Join(_, _)
Join(parts, sep) ==
    IF parts = <<>> THEN <<>>
    ELSE IF Len(parts) = 1 THEN parts[1]
    ELSE parts[1] \o sep \o Join(Tail(parts), sep)

\* s.isdigit()
IsDigit(s) == s # <<>> /\ \A i \in 1..Len(s) : IsDigitChar(s[i])

\* int(s) on a string of digit-type characters raises ValueError unless all of
\* them are decimal digits.
IntRaises(s) == s = <<>> \/ \E i \in 1..Len(s) : ~IsDecimalChar(s[i])

RECURSIVE IntValue(_)
IntValue(s) ==
    IF s = <<>> THEN 0
    ELSE 10 * IntValue(SubSeq(s, 1, Len(s) - 1)) + DigitValue(s[Len(s)])

RECURSIVE StrNat(_)
StrNat(n) ==
    IF n < 10 THEN <<DecimalDigits[n + 1]>>
    ELSE StrNat(n \div 10) \o <<DecimalDigits[(n % 10) + 1]>>

\* str(n) of an int
StrInt(n) == IF n < 0 THEN <<"-">> \o StrNat(0 - n) ELSE StrNat(n)

\* str(b) of a bool
StrBool(b) == IF b THEN <<"T", "r", "u", "e">> ELSE <<"F", "a", "l", "s", "e">>

TRUE_TEXT == <<"T", "R", "U", "E">>
FALSE_TEXT == <<"F", "A", "L", "S", "E">>
HTTPONLY_PREFIX == <<"#", "H", "t", "t", "p", "O", "n", "l", "y", "_">>
HTTPONLY_WORD == <<"#", "H", "t", "t", "p", "O", "n", "l", "y">>

-----------------------------------------------------------------------------
(* Cookie and dict                                                         *)

\* Cookie.__init__: the seven attributes, stored as given.  expiration is
\* <<n>> for the int n and <<>> for None.
Cookie(domain, flag, path, secure, expiration, name, value) ==
    [domain |-> domain, flag |-> flag, path |-> path, secure |-> secure,
     expiration |-> expiration, name |-> name, value |-> value]

\* A dict is the sequence of its (key, value) entries in insertion order.
DictKeys(d) == {d[i][1] : i \in 1..Len(d)}
DictGet(d, k) == d[CHOOSE i \in 1..Len(d) : d[i][1] = k][2]
DictValues(d) == IF d = <<>> THEN <<>> ELSE [i \in 1..Len(d) |-> d[i][2]]

\* d[k] = v: a known key keeps its position and takes the new value.
DictSetFirstWins(d, k, v) == IF k \in DictKeys(d) THEN d ELSE Append(d, <<k, v>>)
DictSet(d, k, v) ==
    IF k \in DictKeys(d)
    THEN [i \in 1..Len(d) |-> IF d[i][1] = k THEN <<k, v>> ELSE d[i]]
    ELSE Append(d, <<k, v>>)

-----------------------------------------------------------------------------
(* parse_from_string                                                       *)

\* line 91: the lines of the input that are not blank
NonBlankLines(text) ==
    SelectSeq(Split(text, NL), LAMBDA line : Strip(line) # <<>>)

\* line 94
IsCommentLine(line) ==
    StartsWith(line, <<"#">>) /\ ~StartsWith(line, HTTPONLY_PREFIX)

\* line 97
LineFields(line) == Split(Strip(line), TAB)

\* line 100
EnoughFieldsAndName(lineFields) == Len(lineFields) >= 7 /\ lineFields[6] # <<>>
EnoughFields(lineFields) == Len(lineFields) >= 7

\* lines 102-106
CleanDomain(field) ==
    IF StartsWith(field, HTTPONLY_WORD)
    THEN Replace(field, HTTPONLY_PREFIX, <<>>)
    ELSE field

\* lines 107-113
ParseBool(field) == Upper(field) = TRUE_TEXT

\* lines 114-116: the ValueError of int() leaves the function
ExpirationRaises(field) == IsDigit(field) /\ IntRaises(field)
Expiration(field) == IF IsDigit(field) THEN IntValue(field) ELSE 0

\* lines 101-121
LineCookie(lineFields) ==
    Cookie(CleanDomain(lineFields[1]), ParseBool(lineFields[2]), lineFields[3],
           ParseBool(lineFields[4]), <<Expiration(lineFields[5])>>,
           lineFields[6], lineFields[7])

\* lines 92-124: the loop; the outcome is the dict returned, or the raise
RECURSIVE ParseLoop(_, _)
ParseLoop(lines, dict) ==
    IF lines = <<>> THEN [raised |-> FALSE, cookies |-> dict]
    ELSE LET line == Head(lines)
             lineFields == LineFields(line)
         IN  IF IsCommentLine(line) THEN ParseLoop(Tail(lines), dict)
             ELSE IF ~EnoughFields(lineFields) THEN ParseLoop(Tail(lines), dict)
             ELSE IF ExpirationRaises(lineFields[5])
                  THEN [raised |-> TRUE, cookies |-> <<>>]
             ELSE ParseLoop(Tail(lines),
                            DictSet(dict, lineFields[6], LineCookie(lineFields)))

parse_from_string(text) == ParseLoop(NonBlankLines(text), <<>>)

NotParsed == [raised |-> FALSE, cookies |-> <<>>]

-----------------------------------------------------------------------------
(* to_netscape_string                                                      *)

\* A raw cookie mapping is a function from the keys it has to their values.
\* An expiry is the number num/den, written <<num, den>> (den > 0); None is <<>>.
None == <<>>

\* cookie.get(key, default)
Get(cookie, key, default) == IF key \in DOMAIN cookie THEN cookie[key] ELSE default

\* truth value of an expiry: None and zero are false
Truthy(expiration_date) == expiration_date # None /\ expiration_date[1] # 0

\* int(x) of a number: truncation toward zero
IntFloor(x) ==
    IF x[1] >= 0 THEN x[1] \div x[2] ELSE 0 - ((x[2] - 1 - x[1]) \div x[2])
IntTrunc(x) == IF x[1] >= 0 THEN x[1] \div x[2] ELSE 0 - ((0 - x[1]) \div x[2])

\* line 70
IncludeSubDomain(domain) ==
    IF domain # <<>> THEN StartsWith(domain, <<".">>) ELSE FALSE

\* line 71
Expiry(expiration_date) ==
    IF Truthy(expiration_date) THEN StrInt(IntTrunc(expiration_date)) ELSE <<"0">>

\* lines 63-83
CookieParts(cookie) ==
    LET domain == Get(cookie, "domain", <<>>)
        expiration_date == Get(cookie, "expiry", None)
        path == Get(cookie, "path", <<>>)
        secure == Get(cookie, "secure", FALSE)
        name == Get(cookie, "name", <<>>)
        value == Get(cookie, "value", <<>>)
    IN  <<domain, Upper(StrBool(IncludeSubDomain(domain))), path,
          Upper(StrBool(secure)), Expiry(expiration_date), name, value>>

\* lines 61-85
to_netscape_string(cookieList) ==
    Join(IF cookieList = <<>> THEN <<>>
         ELSE [i \in 1..Len(cookieList) |-> Join(CookieParts(cookieList[i]), <<TAB>>)],
         <<NL>>)

-----------------------------------------------------------------------------
(* save_to_file                                                            *)

\* lines 172-174
HEADER ==
    <<"#", " ", "N", "e", "t", "s", "c", "a", "p", "e", " ", "H", "T", "T", "P",
      " ", "C", "o", "o", "k", "i", "e", " ", "F", "i", "l", "e", "\n">>
    \o <<"#", " ", "h", "t", "t", "p", ":", "/", "/", "c", "u", "r", "l", ".",
         "h", "a", "x", "x", ".", "s", "e", "/", "r", "f", "c", "/", "c", "o",
         "o", "k", "i", "e", "_", "s", "p", "e", "c", ".", "h", "t", "m", "l", "\n">>
    \o <<"#", " ", "T", "h", "i", "s", " ", "i", "s", " ", "a", " ", "g", "e",
         "n", "e", "r", "a", "t", "e", "d", " ", "f", "i", "l", "e", "!", " ",
         " ", "D", "o", " ", "n", "o", "t", " ", "e", "d", "i", "t", ".", "\n", "\n">>

\* lines 178-179
BoolColumn(b) == IF b THEN TRUE_TEXT ELSE FALSE_TEXT

\* lines 180-184
ExpirationColumnNonZero(expiration) ==
    IF expiration # None /\ expiration[1] # 0 THEN StrInt(expiration[1]) ELSE <<>>
ExpirationColumn(expiration) ==
    IF expiration # None /\ expiration[1] > 0 THEN StrInt(expiration[1]) ELSE <<>>

\* lines 187-189
CookieLine(cookie) ==
    cookie.domain \o <<TAB>> \o BoolColumn(cookie.flag) \o <<TAB>> \o cookie.path
    \o <<TAB>> \o BoolColumn(cookie.secure) \o <<TAB>>
    \o ExpirationColumn(cookie.expiration) \o <<TAB>> \o cookie.name
    \o <<TAB>> \o cookie.value \o <<NL>>

RECURSIVE CookieLines(_)
CookieLines(cookieList) ==
    IF cookieList = <<>> THEN <<>>
    ELSE CookieLine(Head(cookieList)) \o CookieLines(Tail(cookieList))

\* lines 170-189: what the file holds when save_to_file returns
save_to_file(cookieList) == HEADER \o CookieLines(cookieList)

\* lines 162-164: what the file holds when save_cookies_to_file returns
save_cookies_to_file(cookieList) == to_netscape_string(cookieList)

-----------------------------------------------------------------------------
(* Inputs                                                                  *)

MaxLines == 2      \* lines of an input text
MaxCookies == 2    \* entries of a cookie list

Lists(S, n) == UNION {[1..k -> S] : k \in 0..n}
With(fields, i, field) == [fields EXCEPT ![i] = field]

COOKIE_PATH == <<"c", ".", "t", "x", "t">>

BaseFields ==
    <<<<"x">>, TRUE_TEXT, <<"/">>, FALSE_TEXT, <<"1", "7">>, <<"a">>, <<"v">>>>

DomainFields ==
    { <<>>,
      <<"#", "x">>,
      HTTPONLY_PREFIX \o <<"x">>,
      HTTPONLY_PREFIX \o <<"a">> \o HTTPONLY_PREFIX \o <<"b">>,
      HTTPONLY_PREFIX \o <<"#", "H", "t", "t", "p">> \o HTTPONLY_PREFIX
          \o <<"O", "n", "l", "y", "_", "x">> }
BoolFields == { <<"t", "r", "u", "e">>, <<"x">> }
ExpirationFields ==
    { <<>>, <<"-", "5">>, <<"1", "x">>, <<SUPERSCRIPT_TWO>> }

SampleFields ==
    {BaseFields}
    \cup {With(BaseFields, 1, f) : f \in DomainFields}
    \cup {With(BaseFields, 2, f) : f \in BoolFields}
    \cup {With(BaseFields, 4, <<"T", "r", "u", "e">>)}
    \cup {With(BaseFields, 5, f) : f \in ExpirationFields}
    \cup {With(BaseFields, 6, <<>>),
          With(With(BaseFields, 6, <<"b">>), 7, <<"w">>)}
    \cup {With(BaseFields, 7, <<>>), With(BaseFields, 7, <<"w">>)}
    \cup {SubSeq(BaseFields, 1, 6), BaseFields \o << <<"z">> >>}

SampleLines ==
    {Join(fields, <<TAB>>) : fields \in SampleFields}
    \cup { <<" ">>,
           <<" ">> \o Join(With(BaseFields, 1, <<"#", "x">>), <<TAB>>) \o <<"\r">> }

Texts == {Join(lines, <<NL>>) : lines \in Lists(SampleLines, MaxLines)}

BaseCookie == Cookie(<<"x">>, TRUE, <<"/">>, FALSE, <<17>>, <<"a">>, <<"v">>)

SampleCookies ==
    {BaseCookie}
    \cup {[BaseCookie EXCEPT !.domain = d] :
            d \in {<<".", "x">>, <<>>, <<"#", "x">>, HTTPONLY_PREFIX \o <<"x">>}}
    \cup {[BaseCookie EXCEPT !.flag = FALSE, !.secure = TRUE]}
    \cup {[BaseCookie EXCEPT !.expiration = e] : e \in {<<0>>, None, <<0 - 5>>}}
    \cup {[BaseCookie EXCEPT !.name = <<"b">>]}
    \cup {[BaseCookie EXCEPT !.value = v] :
            v \in {<<>>, <<"w">>, <<"v", TAB, "w">>}}

CookieLists == Lists(SampleCookies, MaxCookies)

PriorDisk == {<<>>, << <<"o", "l", "d", NL>> >>}

BaseRaw ==
    [domain |-> <<".", "x">>, path |-> <<"/">>, secure |-> TRUE,
     name |-> <<"a">>, value |-> <<"1">>, expiry |-> <<1700000000, 1>>]

Without(cookie, key) == [k \in (DOMAIN cookie) \ {key} |-> cookie[k]]

SampleRaws ==
    {BaseRaw}
    \cup {Without(BaseRaw, key) : key \in DOMAIN BaseRaw}
    \cup {[BaseRaw EXCEPT !.domain = <<"x">>], [BaseRaw EXCEPT !.domain = <<>>],
          [BaseRaw EXCEPT !.secure = FALSE]}
    \cup {[BaseRaw EXCEPT !.expiry = e] :
            e \in {<<0, 1>>, <<3, 2>>, <<0 - 3, 2>>, <<1, 2>>, <<0 - 7, 1>>}}
    \cup {Without(Without(BaseRaw, "domain"), "secure")}

RawLists == Lists(SampleRaws, MaxCookies)

DriverRaws ==
    {BaseRaw, Without(BaseRaw, "expiry"), [BaseRaw EXCEPT !.name = <<"b">>]}
DriverSessions == Lists(DriverRaws, MaxCookies)
FilePaths == {None, << <<>> >>, <<COOKIE_PATH>>}

-----------------------------------------------------------------------------
(* The calls                                                               *)

\* parse_from_string(input_string)
ParseFromString ==
    /\ pc = "parse"
    /\ parsed' = parse_from_string(input_string)
    /\ pc' = IF parsed'.raised THEN "raised" ELSE "parsed"
    /\ UNCHANGED <<input_string, cookies, disk, returned, cookie_data,
                   file_path, data, reads>>

\* save_to_file(list(parsed.values()), path) on the dict a parse returned
SaveParsed ==
    /\ pc = "parsed"
    /\ cookies' = DictValues(parsed.cookies)
    /\ disk' = <<save_to_file(cookies')>>
    /\ returned' = file_path
    /\ pc' = "saved"
    /\ UNCHANGED <<input_string, parsed, cookie_data, file_path, data, reads>>

\* save_to_file(cookies, path)
SaveToFile ==
    /\ pc = "save"
    /\ disk' = <<save_to_file(cookies)>>
    /\ returned' = file_path
    /\ pc' = "written"
    /\ UNCHANGED <<input_string, parsed, cookies, cookie_data, file_path,
                   data, reads>>

\* parse_from_file(path) on the file save_to_file wrote
ParseFromFile ==
    /\ pc = "written"
    /\ parsed' = parse_from_string(disk[1])
    /\ pc' = IF parsed'.raised THEN "raised" ELSE "reparsed"
    /\ UNCHANGED <<input_string, cookies, disk, returned, cookie_data,
                   file_path, data, reads>>

\* to_netscape_string(cookie_data)
ToNetscapeString ==
    /\ pc = "serialize"
    /\ returned' = <<to_netscape_string(cookie_data)>>
    /\ pc' = "serialized"
    /\ UNCHANGED <<input_string, parsed, cookies, disk, cookie_data,
                   file_path, data, reads>>

\* netscape_from_driver, line 148: the first driver.get_cookies()
DriverFirstRead ==
    /\ pc = "driver"
    /\ reads' = Append(reads, cookie_data)
    /\ data' = to_netscape_string(cookie_data)
    /\ pc' = IF file_path # None /\ file_path[1] # <<>>
             THEN "driver_save" ELSE "driver_return"
    /\ UNCHANGED <<input_string, parsed, cookies, disk, returned, cookie_data,
                   file_path>>

\* the browser session changes its cookies between the two reads
SessionChanges ==
    /\ pc = "driver_save"
    /\ cookie_data' \in DriverSessions \ {cookie_data}
    /\ UNCHANGED <<pc, input_string, parsed, cookies, disk, returned,
                   file_path, data, reads>>

\* line 150: the second driver.get_cookies() and save_cookies_to_file
DriverSaveReusesData ==
    /\ pc = "driver_save"
    /\ reads' = Append(reads, cookie_data)
    /\ disk' = <<data>>
    /\ pc' = "driver_return"
    /\ UNCHANGED <<input_string, parsed, cookies, returned, cookie_data,
                   file_path, data>>
DriverSave ==
    /\ pc = "driver_save"
    /\ reads' = Append(reads, cookie_data)
    /\ disk' = <<save_cookies_to_file(cookie_data)>>
    /\ pc' = "driver_return"
    /\ UNCHANGED <<input_string, parsed, cookies, returned, cookie_data,
                   file_path, data>>

\* line 151
DriverReturn ==
    /\ pc = "driver_return"
    /\ returned' = <<data>>
    /\ pc' = "driver_done"
    /\ UNCHANGED <<input_string, parsed, cookies, disk, cookie_data,
                   file_path, data, reads>>

-----------------------------------------------------------------------------
(* Specifications                                                          *)

InitParse ==
    /\ pc = "parse"
    /\ input_string \in Texts
    /\ parsed = NotParsed
    /\ cookies = <<>>
    /\ disk = <<>>
    /\ returned = <<>>
    /\ cookie_data = <<>>
    /\ file_path = <<COOKIE_PATH>>
    /\ data = <<>>
    /\ reads = <<>>

NextParse == ParseFromString \/ SaveParsed

SpecParse == InitParse /\ [][NextParse]_vars

InitSave ==
    /\ pc = "save"
    /\ input_string = <<>>
    /\ parsed = NotParsed
    /\ cookies \in CookieLists
    /\ disk \in PriorDisk
    /\ returned = <<>>
    /\ cookie_data = <<>>
    /\ file_path = <<COOKIE_PATH>>
    /\ data = <<>>
    /\ reads = <<>>

NextSave == SaveToFile \/ ParseFromFile

SpecSave == InitSave /\ [][NextSave]_vars

InitSerialize ==
    /\ pc = "serialize"
    /\ input_string = <<>>
    /\ parsed = NotParsed
    /\ cookies = <<>>
    /\ disk = <<>>
    /\ returned = <<>>
    /\ cookie_data \in RawLists
    /\ file_path = None
    /\ data = <<>>
    /\ reads = <<>>

NextSerialize == ToNetscapeString

SpecSerialize == InitSerialize /\ [][NextSerialize]_vars

InitDriver ==
    /\ pc = "driver"
    /\ input_string = <<>>
    /\ parsed = NotParsed
    /\ cookies = <<>>
    /\ disk \in PriorDisk
    /\ returned = <<>>
    /\ cookie_data \in DriverSessions
    /\ file_path \in FilePaths
    /\ data = <<>>
    /\ reads = <<>>

NextDriver == DriverFirstRead \/ SessionChanges \/ DriverSave \/ DriverReturn

SpecDriver == InitDriver /\ [][NextDriver]_vars

-----------------------------------------------------------------------------
(* Properties of parse_from_string, under SpecParse                        *)

\* The parse has returned a mapping (it did not raise).
ParseReturned == pc \in {"parsed", "saved"}

InputLines == Split(input_string, NL)

\* The retention rule in the words of the specification: not blank after
\* trimming, not a comment, at least 7 tab-separated fields after trimming.
Retained(line) ==
    /\ Strip(line) # <<>>
    /\ ~(Head(line) = "#" /\ ~StartsWith(line, HTTPONLY_PREFIX))
    /\ Len(Split(Strip(line), TAB)) >= 7

RetainedIdx == {i \in 1..Len(InputLines) : Retained(InputLines[i])}
FieldsAt(i) == Split(Strip(InputLines[i]), TAB)
NameAt(i) == FieldsAt(i)[6]

\* The last retained line of the input that carries the name k.
LastIdx(k) ==
    CHOOSE i \in RetainedIdx :
        NameAt(i) = k /\ \A j \in RetainedIdx : NameAt(j) = k => j <= i

\* C2: parsing never raises, and the lines that contribute a record are
\* exactly the non-blank, non-comment lines with at least 7 fields.
C2_LineRetention ==
    pc # "parse" =>
        /\ ~parsed.raised
        /\ DictKeys(parsed.cookies) = {NameAt(i) : i \in RetainedIdx}

\* C2, the part that holds: whenever the parse returns, the names in the
\* mapping are exactly those of the lines the retention rule keeps.
C2_RetentionWhenReturned ==
    ParseReturned => DictKeys(parsed.cookies) = {NameAt(i) : i \in RetainedIdx}

\* C3: no record of the returned mapping has the empty string as its name.
C3_NameNonEmpty ==
    ParseReturned =>
        \A i \in 1..Len(parsed.cookies) :
            parsed.cookies[i][1] # <<>> /\ parsed.cookies[i][2].name # <<>>

\* C3 as amended: a record's name and key are the sixth field of its line, so
\* the mapping has an empty name exactly when a retained line has an empty
\* sixth field; the field-count check does not exclude that.
C3_NameIsSixthField ==
    ParseReturned =>
        /\ \A i \in 1..Len(parsed.cookies) :
               /\ parsed.cookies[i][2].name = parsed.cookies[i][1]
               /\ \E j \in RetainedIdx : NameAt(j) = parsed.cookies[i][1]
        /\ (<<>> \in DictKeys(parsed.cookies)
               <=> \E j \in RetainedIdx : NameAt(j) = <<>>)

\* C3 witness: a returned mapping that holds a record with an empty name.
C3_Witness ==
    /\ pc = "parsed"
    /\ \E i \in 1..Len(parsed.cookies) : parsed.cookies[i][2].name = <<>>

\* The integer a field of decimal digits denotes, 0 for any other field.
AllDecimal(field) ==
    field # <<>> /\ \A i \in 1..Len(field) : field[i] \in {"0", "1", "2", "3", "4", "5", "6", "7", "8", "9"}
CoercedExpiration(field) == IF AllDecimal(field) THEN IntValue(field) ELSE 0

\* C4: the coercion of the fifth field never raises, and every record holds
\* the integer its line's fifth field denotes, or 0, never a negative value.
C4_ExpirationCoercion ==
    pc # "parse" =>
        /\ ~parsed.raised
        /\ \A k \in DictKeys(parsed.cookies) :
               /\ DictGet(parsed.cookies, k).expiration
                      = <<CoercedExpiration(FieldsAt(LastIdx(k))[5])>>
               /\ DictGet(parsed.cookies, k).expiration[1] >= 0

\* The first field with one leading #HttpOnly_ removed, the rest unchanged.
StripOnePrefix(field) ==
    IF StartsWith(field, HTTPONLY_PREFIX)
    THEN SubSeq(field, Len(HTTPONLY_PREFIX) + 1, Len(field))
    ELSE field

\* C5: every retained line, the #HttpOnly_ lines included, gives a record,
\* whose domain is the first field less exactly one leading #HttpOnly_.
C5_HttpOnlyDomain ==
    ParseReturned =>
        /\ \A i \in RetainedIdx : NameAt(i) \in DictKeys(parsed.cookies)
        /\ \A k \in DictKeys(parsed.cookies) :
               DictGet(parsed.cookies, k).domain
                   = StripOnePrefix(FieldsAt(LastIdx(k))[1])

\* C6: the keys are exactly the names of the retained lines, each key maps to
\* a record of that name, and a name carried by several retained lines maps
\* to the record of the last of them.
C6_LastWriteWins ==
    ParseReturned =>
        /\ DictKeys(parsed.cookies) = {NameAt(i) : i \in RetainedIdx}
        /\ Len(parsed.cookies) = Cardinality(DictKeys(parsed.cookies))
        /\ \A k \in DictKeys(parsed.cookies) :
               /\ DictGet(parsed.cookies, k).name = k
               /\ DictGet(parsed.cookies, k) = LineCookie(FieldsAt(LastIdx(k)))

\* C6 witness: two retained lines share a name and differ in their record.
C6_Witness ==
    /\ pc = "parsed"
    /\ \E i, j \in RetainedIdx :
           /\ i < j
           /\ NameAt(i) = NameAt(j)
           /\ LineCookie(FieldsAt(i)) # LineCookie(FieldsAt(j))

\* The lines of the file on disk.
DiskLines == Split(disk[1], NL)

\* C10: no record of the returned mapping has a domain that begins with
\* #HttpOnly_, and save_to_file of those records writes no such line.
C10_MarkerNeverReEmitted ==
    /\ ParseReturned =>
           \A i \in 1..Len(parsed.cookies) :
               ~StartsWith(parsed.cookies[i][2].domain, HTTPONLY_PREFIX)
    /\ pc = "saved" =>
           \A i \in 1..Len(DiskLines) : ~StartsWith(DiskLines[i], HTTPONLY_PREFIX)

-----------------------------------------------------------------------------
(* Properties of save_to_file, under SpecSave                              *)

HasTabOrNewline(text) == \E i \in 1..Len(text) : text[i] \in {TAB, NL}

\* The precondition of the round trip: no tab or newline in a field, and a
\* non-zero expiration.
RoundTripInput(cookie) ==
    /\ ~HasTabOrNewline(cookie.domain)
    /\ ~HasTabOrNewline(cookie.path)
    /\ ~HasTabOrNewline(cookie.name)
    /\ ~HasTabOrNewline(cookie.value)
    /\ cookie.expiration # None
    /\ cookie.expiration[1] # 0

\* The last record of the list that carries the name k.
LastNamed(cookieList, k) ==
    cookieList[CHOOSE i \in 1..Len(cookieList) :
                   /\ cookieList[i].name = k
                   /\ \A j \in 1..Len(cookieList) : cookieList[j].name = k => j <= i]

\* C1: parsing the file save_to_file wrote gives one entry per record name,
\* equal to the original record in all seven fields.
C1_RoundTrip ==
    (pc = "reparsed" /\ \A i \in 1..Len(cookies) : RoundTripInput(cookies[i])) =>
        /\ DictKeys(parsed.cookies) = {cookies[i].name : i \in 1..Len(cookies)}
        /\ \A k \in DictKeys(parsed.cookies) :
               DictGet(parsed.cookies, k) = LastNamed(cookies, k)

\* The expiration column as the specification words it: empty for 0 or an
\* absent value, the decimal form otherwise.
ColumnZeroOrAbsent(expiration) ==
    IF expiration = None \/ expiration[1] = 0 THEN <<>> ELSE StrInt(expiration[1])

\* The expiration column of the code: empty unless the value is above 0.
ColumnNotPositive(expiration) ==
    IF expiration = None \/ expiration[1] <= 0 THEN <<>> ELSE StrInt(expiration[1])

TrueFalse(b) == IF b THEN <<"T", "R", "U", "E">> ELSE <<"F", "A", "L", "S", "E">>

\* One newline-terminated line of seven tab-joined columns.
ExpectedLine(c, column) ==
    Join(<<c.domain, TrueFalse(c.flag), c.path, TrueFalse(c.secure), column,
           c.name, c.value>>, <<TAB>>) \o <<NL>>

\* The expected file: the header, then one line per record in list order.
ExpectedFileZeroOrAbsent(cookieList) ==
    HEADER \o (IF cookieList = <<>> THEN <<>>
               ELSE Join([i \in 1..Len(cookieList) |->
                            ExpectedLine(cookieList[i],
                                ColumnZeroOrAbsent(cookieList[i].expiration))],
                         <<>>))

ExpectedFileNotPositive(cookieList) ==
    HEADER \o (IF cookieList = <<>> THEN <<>>
               ELSE Join([i \in 1..Len(cookieList) |->
                            ExpectedLine(cookieList[i],
                                ColumnNotPositive(cookieList[i].expiration))],
                         <<>>))

SaveReturned == pc \in {"written", "reparsed", "raised"}

\* C8: after save_to_file the file is the header and one line per record,
\* the expiration column empty for 0 or absent and decimal otherwise.
C8_HeaderedWriter ==
    SaveReturned =>
        /\ disk = <<ExpectedFileZeroOrAbsent(cookies)>>
        /\ returned = file_path

\* C8 as amended: the expiration column is empty when the expiration is
\* absent, 0 or negative, and the decimal form only when it is above 0.
C8_HeaderedWriterNotPositive ==
    SaveReturned =>
        /\ disk = <<ExpectedFileNotPositive(cookies)>>
        /\ SubSeq(disk[1], 1, 2) = <<"#", " ">>
        /\ Len(SelectSeq(disk[1], LAMBDA c : c = NL)) = 4 + Len(cookies)
        /\ returned = file_path

\* C8 witness: save_to_file wrote a record of negative expiration and a
\* record of positive expiration.
C8_Witness ==
    /\ pc = "written"
    /\ Len(cookies) = 2
    /\ cookies[1].expiration = <<0 - 5>>
    /\ cookies[2].expiration = <<17>>
    /\ disk # <<>>

-----------------------------------------------------------------------------
(* Properties of to_netscape_string, under SpecSerialize                   *)

\* The number num/den cut to an integer, toward zero.
Truncated(x) ==
    LET magnitude == (IF x[1] < 0 THEN 0 - x[1] ELSE x[1]) \div x[2]
    IN  IF x[1] < 0 THEN 0 - magnitude ELSE magnitude

Has(cookie, key) == key \in DOMAIN cookie
TextOf(cookie, key) == IF Has(cookie, key) THEN cookie[key] ELSE <<>>

\* One line of the header-less form, in the words of the specification.
ExpectedRawLine(cookie) ==
    Join(<< TextOf(cookie, "domain"),
            TrueFalse(Has(cookie, "domain") /\ cookie.domain # <<>>
                      /\ Head(cookie.domain) = "."),
            TextOf(cookie, "path"),
            TrueFalse(Has(cookie, "secure") /\ cookie.secure),
            IF Has(cookie, "expiry") /\ cookie.expiry[1] # 0
            THEN StrInt(Truncated(cookie.expiry)) ELSE <<"0">>,
            TextOf(cookie, "name"),
            TextOf(cookie, "value") >>, <<TAB>>)

RECURSIVE ExpectedRawText(_)
ExpectedRawText(cookieList) ==
    IF cookieList = <<>> THEN <<>>
    ELSE IF Len(cookieList) = 1 THEN ExpectedRawLine(cookieList[1])
    ELSE ExpectedRawLine(Head(cookieList)) \o <<NL>>
         \o ExpectedRawText(Tail(cookieList))

\* C7: to_netscape_string returns one line per entry in input order, joined
\* by newline with no trailing newline and no header, each line the seven
\* columns joined by tabs with the stated defaults.
C7_HeaderlessSerializer ==
    pc = "serialized" =>
        /\ returned = <<ExpectedRawText(cookie_data)>>
        /\ (cookie_data = <<>> => returned = << <<>> >>)
        /\ (cookie_data # <<>> => returned[1][Len(returned[1])] # NL)
        /\ (cookie_data # <<>> =>
               Len(SelectSeq(returned[1], LAMBDA c : c = NL)) = Len(cookie_data) - 1)

\* C7 witness: a list of two entries was serialized, one without an expiry
\* and one whose expiry is negative and not an integer.
C7_Witness ==
    /\ pc = "serialized"
    /\ Len(cookie_data) = 2
    /\ ~Has(cookie_data[1], "expiry")
    /\ Has(cookie_data[2], "expiry")
    /\ cookie_data[2].expiry = <<0 - 3, 2>>

-----------------------------------------------------------------------------
(* Properties of netscape_from_driver, under SpecDriver                    *)

PathSupplied == file_path # None /\ file_path[1] # <<>>

\* C9: the returned text serializes the first read; with a path the session
\* is read a second time and the file holds the serialization of that read,
\* equal to the returned text when both reads gave the same list; without a
\* path the session is read once and the file is never written.
C9_DriverOrdering ==
    /\ [](pc = "driver_done" =>
            /\ returned = <<ExpectedRawText(reads[1])>>
            /\ PathSupplied =>
                   /\ Len(reads) = 2
                   /\ disk = <<ExpectedRawText(reads[2])>>
                   /\ (reads[1] = reads[2] => disk = returned)
            /\ ~PathSupplied => Len(reads) = 1)
    /\ [][~PathSupplied => disk' = disk]_vars

\* C9 witness: the session changed between the two reads and the file
\* differs from the returned text.
C9_Witness ==
    /\ pc = "driver_done"
    /\ PathSupplied
    /\ Len(reads) = 2
    /\ reads[1] # reads[2]
    /\ disk # returned

====
